---- MODULE Spec2Model ----
(***************************************************************************)
(* Mailmeter e-mail audit: the CSV tool (mailmeter_csv.py) and the         *)
(* dashboard (streamlit_app.py).  Both run process_row over a batch on a   *)
(* ThreadPoolExecutor and segment the records by score.                    *)
(*                                                                         *)
(* Text is modelled as a sequence of one-character strings; DNS and SMTP   *)
(* are the environment: every answer a resolver or a mail server can give  *)
(* is an input of the operator that models the call.                       *)
(***************************************************************************)
EXTENDS Integers, Sequences, FiniteSets, TLC

VARIABLES variant, rows, task, fut, order, results, seg, phase,
          dns_in, dns_out, row_in, row_out

vars == <<variant, rows, task, fut, order, results, seg, phase,
          dns_in, dns_out, row_in, row_out>>

Variants == {"csv", "dashboard"}

(***************************************************************************)
(* Text helpers: str.strip(), str.split('@')[0], re.match(r'^\d+', s)      *)
(***************************************************************************)
Whitespace == {" "}

Digits == {"1"}

RECURSIVE lstrip(_)
lstrip(s) ==
    IF s # <<>> /\ Head(s) \in Whitespace THEN lstrip(Tail(s)) ELSE s

RECURSIVE rstrip(_)
rstrip(s) ==
    IF s # <<>> /\ s[Len(s)] \in Whitespace
    THEN rstrip(SubSeq(s, 1, Len(s) - 1))
    ELSE s

strip(s) == rstrip(lstrip(s))

\* email.split('@')[0]: the text before the first "@", the whole text without one
RECURSIVE split_at_0(_)
split_at_0(s) ==
    IF s = <<>> \/ Head(s) = "@" THEN <<>> ELSE <<Head(s)>> \o split_at_0(Tail(s))

\* re.match(r'^\d+', s): at least one digit at the start
match_leading_digits(s) == s # <<>> /\ Head(s) \in Digits

CountAt(s) == Cardinality({i \in 1..Len(s) : s[i] = "@"})

\* the text after the "@" of an address with exactly one "@"
domain_of(s) == SubSeq(s, Len(split_at_0(s)) + 2, Len(s))

\* the syntax email_validator accepts, as far as the sampled texts go: one "@",
\* a non-empty local part and domain, no whitespace inside
syntax_ok(s) ==
    /\ CountAt(s) = 1
    /\ split_at_0(s) # <<>>
    /\ domain_of(s) # <<>>
    /\ \A i \in 1..Len(s) : s[i] \notin Whitespace

(***************************************************************************)
(* The environment's answers                                               *)
(***************************************************************************)
\* MX exchange host names, as label sequences
MxHosts ==
    { <<"aspmx", "l", "google", "com">>,
      <<"ASPMX", "L", "GOOGLE", "COM">>,
      <<"mx", "googlemail", "com">>,
      <<"example", "mail", "protection", "outlook", "com">>,
      <<"contoso", "mx", "microsoft">>,
      <<"mail", "example", "com">>,
      <<"google", "outlook", "com">> }

\* an MX answer: the resolver raises (NXDOMAIN, Timeout) or returns records
MxAnswers ==
    { [rcode |-> "NXDOMAIN", host |-> <<>>], [rcode |-> "TIMEOUT", host |-> <<>>] }
    \cup { [rcode |-> "NOERROR", host |-> h] : h \in MxHosts }

\* a TXT answer for the bare domain: the resolver raises or returns record texts
TxtAnswers ==
    { [rcode |-> "NXDOMAIN", records |-> <<>>],
      [rcode |-> "NOERROR", records |-> <<"site-verification=abc">>],
      [rcode |-> "NOERROR", records |-> <<"v=spf1 -all">>],
      [rcode |-> "NOERROR", records |-> <<"site-verification=abc", "v=spf1 -all">>] }

DmarcAnswers == {"NXDOMAIN", "NOERROR"}

\* a DKIM selector's TXT answer: the resolver raises NXDOMAIN/NoAnswer, raises a
\* timeout, returns a DKIM key record, or returns some other TXT record
DkimAnswers == {"NXDOMAIN", "TIMEOUT", "TXT_DKIM", "TXT_OTHER"}

\* Resolver(): "ok", or "fault" when the constructor raises
SetupAnswers == {"ok", "fault"}

\* str(x).lower() of a host label
lower(label) ==
    CASE label = "ASPMX" -> "aspmx"
      [] label = "L" -> "l"
      [] label = "GOOGLE" -> "google"
      [] label = "COM" -> "com"
      [] OTHER -> label

\* Python's `kw in label` for the labels above (case-sensitive)
label_has(kw, label) ==
    \/ label = kw
    \/ kw = "google" /\ label = "googlemail"

\* Python's `kw in host` for a host name
host_has(kw, host) == \E i \in 1..Len(host) : label_has(kw, host[i])

host_lower(host) == [i \in 1..Len(host) |-> lower(host[i])]

\* `"v=spf1" in str(r)` for the TXT record texts above
has_spf1(r) == r = "v=spf1 -all"

(***************************************************************************)
(* get_dns_data(domain): MX, SPF, DMARC, DKIM                              *)
(***************************************************************************)
DefaultRes ==
    [mx |-> "FAIL", spf |-> "FAIL", dkim |-> "FAIL", dmarc |-> "FAIL",
     server |-> "Unknown"]

\* the DKIM selectors each variant tries, in order
Selectors(v) ==
    IF v = "csv" THEN <<"google", "default", "mail", "k1">>
    ELSE <<"google", "default", "mail", "k1", "sig1">>

MaxSelectors == Len(Selectors("dashboard"))

\* resolver.resolve returned an answer (it raised nothing)
resolved(answer) == answer \in {"NOERROR", "TXT_DKIM", "TXT_OTHER"}

\* the provider named after the first exchange host, lower-cased
server_of(primary_mx) ==
    IF host_has("google", primary_mx) THEN "Google Workspace"
    ELSE IF host_has("outlook", primary_mx) THEN "Microsoft 365"
    ELSE "Private SMTP"

mx_check(res, mx) ==
    IF mx.rcode = "NOERROR"
    THEN [res EXCEPT !.mx = "PASS", !.server = server_of(host_lower(mx.host))]
    ELSE res

spf_check(res, txt) ==
    IF txt.rcode = "NOERROR" /\ \E i \in 1..Len(txt.records) : has_spf1(txt.records[i])
    THEN [res EXCEPT !.spf = "PASS"]
    ELSE res

dmarc_check(res, dmarc) ==
    IF resolved(dmarc) THEN [res EXCEPT !.dmarc = "PASS"] ELSE res

\* the selector loop from selector k on: the verdict and the selectors resolved
RECURSIVE dkim_loop(_, _, _)
dkim_loop(sels, answers, k) ==
    IF k > Len(sels) THEN [dkim |-> "FAIL", log |-> <<>>]
    ELSE IF resolved(answers[k]) THEN [dkim |-> "PASS", log |-> <<sels[k]>>]
    ELSE LET rest == dkim_loop(sels, answers, k + 1)
         IN  [dkim |-> rest.dkim, log |-> <<sels[k]>> \o rest.log]

\* e = [setup, mx, txt, dmarc, dkim]: what the resolver answers.  The result is
\* res, whether the call raised, and the names it resolved, in order.
get_dns_data(v, e) ==
    IF e.setup = "fault"
    THEN [raised |-> (v = "dashboard"), res |-> DefaultRes, log |-> <<>>]
    ELSE LET r1 == mx_check(DefaultRes, e.mx)
             r2 == spf_check(r1, e.txt)
             r3 == dmarc_check(r2, e.dmarc)
             dk == dkim_loop(Selectors(v), e.dkim, 1)
         IN  [raised |-> FALSE,
              res |-> [r3 EXCEPT !.dkim = dk.dkim],
              log |-> <<"MX", "TXT", "_dmarc">> \o dk.log]

(***************************************************************************)
(* check_smtp(email, domain, server)                                       *)
(***************************************************************************)
\* Python's `kw in server` for the provider names of server_of
server_has(kw, server) ==
    \/ kw = "Google" /\ server = "Google Workspace"
    \/ kw = "Microsoft" /\ server = "Microsoft 365"

\* what the probe meets: the step that raises ("none": no step does) and the
\* reply code of RCPT TO
SmtpAnswers ==
    { [fail |-> "mx", code |-> 0], [fail |-> "connect", code |-> 0],
      [fail |-> "rcpt", code |-> 0],
      [fail |-> "none", code |-> 250], [fail |-> "none", code |-> 251],
      [fail |-> "none", code |-> 550] }

check_smtp_google_only(server, a) ==
    IF server_has("Google", server)
    THEN [status |-> "PROTECTED", log |-> <<>>]
    ELSE IF a.fail = "mx" THEN [status |-> "UNVERIFIABLE", log |-> <<"MX">>]
    ELSE IF a.fail = "connect"
         THEN [status |-> "UNVERIFIABLE", log |-> <<"MX", "connect">>]
    ELSE IF a.fail = "rcpt"
         THEN [status |-> "UNVERIFIABLE",
               log |-> <<"MX", "connect", "helo", "mail", "rcpt", "close">>]
    ELSE [status |-> IF a.code = 250 THEN "AVAILABLE" ELSE "NOT_FOUND",
          log |-> <<"MX", "connect", "helo", "mail", "rcpt", "close">>]

\* the result and the network steps taken, in order
check_smtp(server, a) ==
    IF server_has("Google", server) \/ server_has("Microsoft", server)
    THEN [status |-> "PROTECTED", log |-> <<>>]
    ELSE IF a.fail = "mx" THEN [status |-> "UNVERIFIABLE", log |-> <<"MX">>]
    ELSE IF a.fail = "connect"
         THEN [status |-> "UNVERIFIABLE", log |-> <<"MX", "connect">>]
    ELSE IF a.fail = "rcpt"
         THEN [status |-> "UNVERIFIABLE",
               log |-> <<"MX", "connect", "helo", "mail", "rcpt", "close">>]
    ELSE [status |-> IF a.code = 250 THEN "AVAILABLE" ELSE "NOT_FOUND",
          log |-> <<"MX", "connect", "helo", "mail", "rcpt", "close">>]

(***************************************************************************)
(* validate_email(email) / validate_email(email, check_deliverability=False)*)
(***************************************************************************)
\* "ok"; "undeliverable": the domain does not resolve; "fault": the call raises
\* something that is no EmailNotValidError
ValAnswers == {"ok", "undeliverable", "fault"}

\* raised: "none", "EmailNotValidError" or "Exception"; dns: the call queried DNS
validate_email(email, check_deliverability, a) ==
    IF a = "fault" THEN [raised |-> "Exception", dns |-> FALSE]
    ELSE IF ~syntax_ok(email) THEN [raised |-> "EmailNotValidError", dns |-> FALSE]
    ELSE IF check_deliverability
         THEN [raised |-> IF a = "undeliverable" THEN "EmailNotValidError" ELSE "none",
               dns |-> TRUE]
    ELSE [raised |-> "none", dns |-> FALSE]

(***************************************************************************)
(* process_row: one address's audit and score                              *)
(***************************************************************************)
None == [none |-> TRUE]

Row(email, spf, smtp, dkim, dmarc, mx, status, server, score) ==
    [email |-> email, spf |-> spf, smtp |-> smtp, dkim |-> dkim, dmarc |-> dmarc,
     mx |-> mx, status |-> status, server |-> server, score |-> score]

SyntaxErrorRow(email) ==
    Row(email, "FAIL", "INVALID", "FAIL", "FAIL", "FAIL", "Syntax Error", "N/A", 0)

InternalErrorRow(email) ==
    Row(email, "ERROR", "UNKNOWN", "ERROR", "ERROR", "ERROR", "Internal Error", "N/A", 0)

max0_unfloored(score) == score

\* max(0, score)
max0(score) == IF score > 0 THEN score ELSE 0

dns_points(d) ==
    (IF d.mx = "PASS" THEN 20 ELSE 0) + (IF d.spf = "PASS" THEN 10 ELSE 0)
    + (IF d.dkim = "PASS" THEN 10 ELSE 0) + (IF d.dmarc = "PASS" THEN 10 ELSE 0)

score_csv_protected_40(d, smtp_status, email) ==
    dns_points(d)
    + (IF smtp_status = "AVAILABLE" THEN 50
       ELSE IF smtp_status = "PROTECTED" THEN 40 ELSE 0)
    - (IF match_leading_digits(split_at_0(email)) THEN 30 ELSE 0)

\* the CSV tool: AVAILABLE and PROTECTED both add 50; a local part that starts
\* with digits loses 30
score_csv(d, smtp_status, email) ==
    dns_points(d)
    + (IF smtp_status \in {"AVAILABLE", "PROTECTED"} THEN 50 ELSE 0)
    - (IF match_leading_digits(split_at_0(email)) THEN 30 ELSE 0)

\* the dashboard: AVAILABLE adds 50, PROTECTED 40; no penalty
score_dashboard(d, smtp_stat) ==
    dns_points(d)
    + (IF smtp_stat = "AVAILABLE" THEN 50
       ELSE IF smtp_stat = "PROTECTED" THEN 40 ELSE 0)

\* what a call returns (ret) and what it did on the way: fault, an exception that
\* is no EmailNotValidError reached process_row's handler; val_dns, the validator
\* queried DNS; dns_log and smtp_log, the lookups and SMTP steps made
Outcome(ret, fault, val_dns, dns_log, smtp_log) ==
    [ret |-> ret, fault |-> fault, val_dns |-> val_dns, dns_log |-> dns_log,
     smtp_log |-> smtp_log]

\* env = [val, dns, smtp]: the answers of the validator, the resolver and the
\* mail server
process_row_csv(row, env) ==
    IF row = <<>> \/ row[1] = <<>> THEN Outcome(None, FALSE, FALSE, <<>>, <<>>)
    ELSE LET email == strip(row[1])
             valid == validate_email(email, TRUE, env.val)
             dns_data == get_dns_data("csv", env.dns)
             smtp == check_smtp(dns_data.res.server, env.smtp)
             score == score_csv(dns_data.res, smtp.status, email)
         IN  IF valid.raised # "none"
             THEN Outcome(SyntaxErrorRow(email), valid.raised = "Exception",
                          valid.dns, <<>>, <<>>)
             ELSE IF dns_data.raised
             THEN Outcome(SyntaxErrorRow(email), TRUE, valid.dns, dns_data.log, <<>>)
             ELSE Outcome(Row(email, dns_data.res.spf, smtp.status, dns_data.res.dkim,
                              dns_data.res.dmarc, dns_data.res.mx, "Valid Format",
                              dns_data.res.server, max0(score)),
                          FALSE, valid.dns, dns_data.log, smtp.log)

process_row_dashboard(cell, env) ==
    LET email == strip(cell)
        valid == validate_email(email, FALSE, env.val)
        dns_data == get_dns_data("dashboard", env.dns)
        smtp_stat == check_smtp(dns_data.res.server, env.smtp)
        score == score_dashboard(dns_data.res, smtp_stat.status)
    IN  IF valid.raised = "EmailNotValidError"
        THEN Outcome(SyntaxErrorRow(email), FALSE, valid.dns, <<>>, <<>>)
        ELSE IF valid.raised = "Exception"
        THEN Outcome(InternalErrorRow(email), TRUE, valid.dns, <<>>, <<>>)
        ELSE IF dns_data.raised
        THEN Outcome(InternalErrorRow(email), TRUE, valid.dns, dns_data.log, <<>>)
        ELSE Outcome(Row(email, dns_data.res.spf, smtp_stat.status, dns_data.res.dkim,
                         dns_data.res.dmarc, dns_data.res.mx, "Valid Format",
                         dns_data.res.server, max0(score)),
                     FALSE, valid.dns, dns_data.log, smtp_stat.log)

\* an item is a CSV row (a list of cells) for the CSV tool and a cell for the
\* dashboard
process_row(v, item, env) ==
    IF v = "csv" THEN process_row_csv(item, env) ELSE process_row_dashboard(item, env)

(***************************************************************************)
(* The batch: executor.map(process_row, rows) on max_workers threads, then *)
(* the segmentation by score                                               *)
(***************************************************************************)
max_workers == 10

\* rows of the input file after the header: a row is a list of cells
NRows == 2

BatchCells == { <<>>, <<" ">>, <<"a", "@", "a">>, <<" ", "1", "@", "a", " ">> }

BatchItems == { <<>> } \cup { <<c>> : c \in BatchCells }

RECURSIVE SeqsUpTo(_, _)
SeqsUpTo(S, n) ==
    IF n = 0 THEN { <<>> }
    ELSE LET shorter == SeqsUpTo(S, n - 1)
         IN  shorter \cup { Append(q, x) : q \in { t \in shorter : Len(t) = n - 1 }, x \in S }

Files == { f \in SeqsUpTo(BatchItems, NRows) : Len(f) >= 1 }

\* df.iloc[:, 0].dropna().tolist(): the first cells that hold something
RECURSIVE dropna(_)
dropna(file) ==
    IF file = <<>> THEN <<>>
    ELSE IF Head(file) = <<>> \/ Head(file)[1] = <<>> THEN dropna(Tail(file))
    ELSE <<Head(file)[1]>> \o dropna(Tail(file))

\* what each variant hands to executor.map
load(v, file) == IF v = "csv" THEN file ELSE dropna(file)

AllDkim(a) == [k \in 1..MaxSelectors |-> a]

NoMx == [rcode |-> "NXDOMAIN", host |-> <<>>]

NoTxt == [rcode |-> "NXDOMAIN", records |-> <<>>]

SpfTxt == [rcode |-> "NOERROR", records |-> <<"v=spf1 -all">>]

DnsEnv(setup, mx, txt, dmarc, dkim) ==
    [setup |-> setup, mx |-> mx, txt |-> txt, dmarc |-> dmarc, dkim |-> dkim]

FaultDnsEnv == DnsEnv("fault", NoMx, NoTxt, "NXDOMAIN", AllDkim("NXDOMAIN"))

FullPass(host) ==
    DnsEnv("ok", [rcode |-> "NOERROR", host |-> host], SpfTxt, "NOERROR",
           AllDkim("TXT_DKIM"))

Env(val, dns, smtp) == [val |-> val, dns |-> dns, smtp |-> smtp]

\* the environments a batch's addresses meet
BatchEnvs ==
    { Env("ok", FullPass(<<"aspmx", "l", "google", "com">>), [fail |-> "none", code |-> 250]),
      Env("ok", FullPass(<<"mail", "example", "com">>), [fail |-> "none", code |-> 250]),
      Env("ok", FullPass(<<"mail", "example", "com">>), [fail |-> "none", code |-> 550]),
      Env("ok", DnsEnv("ok", [rcode |-> "NOERROR",
                              host |-> <<"example", "mail", "protection", "outlook", "com">>],
                       SpfTxt, "NXDOMAIN", AllDkim("NXDOMAIN")),
          [fail |-> "none", code |-> 250]),
      Env("undeliverable", DnsEnv("ok", NoMx, NoTxt, "NXDOMAIN", AllDkim("NXDOMAIN")),
          [fail |-> "mx", code |-> 0]),
      Env("fault", FullPass(<<"mail", "example", "com">>), [fail |-> "none", code |-> 250]),
      Env("ok", FaultDnsEnv, [fail |-> "none", code |-> 250]) }

NotRun == [notrun |-> TRUE]

\* executor.map yields the results in the order of its inputs: after k results
\* the next one is input k + 1's
yield_index_reversed(n, k) == n - k

yield_index(n, k) == k + 1

valid_csv(r) == r # None /\ r.score > 50

risky_csv(r) == r # None /\ 0 < r.score /\ r.score <= 50

dead_csv(r) == r # None /\ r.score = 0

valid_dashboard(r) == r.score >= 70

risky_dashboard(r) == r.score < 70 /\ r.score > 0

dead_dashboard(r) == r.score = 0

segmentation_overlapping(v, res) ==
    IF v = "csv"
    THEN [valid |-> SelectSeq(res, valid_csv),
          risky |-> SelectSeq(res, LAMBDA r : r # None /\ r.score <= 50),
          dead |-> Len(SelectSeq(res, dead_csv))]
    ELSE [valid |-> SelectSeq(res, valid_dashboard),
          risky |-> SelectSeq(res, LAMBDA r : r.score < 70),
          dead |-> Len(SelectSeq(res, dead_dashboard))]

\* valid_data / valid_df, risky_data / risky_df, deleted_count / dead_count
segmentation(v, res) ==
    IF v = "csv"
    THEN [valid |-> SelectSeq(res, valid_csv),
          risky |-> SelectSeq(res, risky_csv),
          dead |-> Len(SelectSeq(res, dead_csv))]
    ELSE [valid |-> SelectSeq(res, valid_dashboard),
          risky |-> SelectSeq(res, risky_dashboard),
          dead |-> Len(SelectSeq(res, dead_dashboard))]

Running == Cardinality({i \in DOMAIN task : task[i] = "running"})

IdleProbes ==
    /\ dns_in = NotRun /\ dns_out = NotRun
    /\ row_in = NotRun /\ row_out = NotRun

Init ==
    /\ variant \in Variants
    /\ \E f \in Files : rows = load(variant, f)
    /\ task = [i \in 1..Len(rows) |-> "queued"]
    /\ fut = [i \in 1..Len(rows) |-> NotRun]
    /\ order = <<>>
    /\ results = <<>>
    /\ seg = NotRun
    /\ phase = "map"
    /\ IdleProbes

\* a free worker thread takes the oldest queued call
Start(i) ==
    /\ phase = "map"
    /\ task[i] = "queued"
    /\ \A j \in 1..(i - 1) : task[j] # "queued"
    /\ Running < max_workers
    /\ task' = [task EXCEPT ![i] = "running"]
    /\ UNCHANGED <<variant, rows, fut, order, results, seg, phase,
                   dns_in, dns_out, row_in, row_out>>

\* a worker thread's process_row returns; order records the calls in the order
\* they returned
Finish(i) ==
    /\ task[i] = "running"
    /\ \E env \in BatchEnvs :
          fut' = [fut EXCEPT ![i] = process_row(variant, rows[i], env)]
    /\ task' = [task EXCEPT ![i] = "done"]
    /\ order' = Append(order, i)
    /\ UNCHANGED <<variant, rows, results, seg, phase,
                   dns_in, dns_out, row_in, row_out>>

\* list(executor.map(...)) takes the next result once its call has returned
Collect ==
    /\ phase = "map"
    /\ Len(results) < Len(rows)
    /\ LET k == yield_index(Len(rows), Len(results))
       IN  /\ task[k] = "done"
           /\ results' = Append(results, fut[k].ret)
    /\ UNCHANGED <<variant, rows, task, fut, order, seg, phase,
                   dns_in, dns_out, row_in, row_out>>

Segment ==
    /\ phase = "map"
    /\ Len(results) = Len(rows)
    /\ seg' = segmentation(variant, results)
    /\ phase' = "end"
    /\ UNCHANGED <<variant, rows, task, fut, order, results,
                   dns_in, dns_out, row_in, row_out>>

Next ==
    \/ \E i \in DOMAIN task : Start(i)
    \/ \E i \in DOMAIN task : Finish(i)
    \/ Collect
    \/ Segment

Spec == Init /\ [][Next]_vars

(***************************************************************************)
(* One get_dns_data call against every answer of the resolver              *)
(***************************************************************************)
IdleBatch ==
    /\ variant = "csv" /\ rows = <<>> /\ task = <<>> /\ fut = <<>>
    /\ order = <<>> /\ results = <<>> /\ seg = NotRun /\ phase = "idle"

DnsEnvs(v) ==
    { FaultDnsEnv }
    \cup { DnsEnv("ok", mx, txt, dmarc, dkim) :
              mx \in MxAnswers, txt \in TxtAnswers, dmarc \in DmarcAnswers,
              dkim \in [1..MaxSelectors -> DkimAnswers] }

DnsInit ==
    /\ IdleBatch
    /\ row_in = NotRun /\ row_out = NotRun
    /\ \E v \in Variants : \E e \in DnsEnvs(v) : dns_in = [v |-> v, e |-> e]
    /\ dns_out = NotRun

DnsAudit ==
    /\ dns_out = NotRun
    /\ dns_out' = get_dns_data(dns_in.v, dns_in.e)
    /\ UNCHANGED <<variant, rows, task, fut, order, results, seg, phase,
                   dns_in, row_in, row_out>>

SpecDns == DnsInit /\ [][DnsAudit]_vars

(***************************************************************************)
(* One process_row call against every answer of validator, resolver and    *)
(* mail server                                                             *)
(***************************************************************************)
Cells ==
    { <<>>, <<" ">>, <<"a", "a">>, <<"a", "@", "a">>, <<"1", "a", "@", "a">>,
      <<" ", "1", "@", "a", " ">>, <<"@", "a">>, <<"a", "@">>,
      <<"a", " ", "@", "a">>, <<"a", "1", "@", "a">> }

\* what executor.map can hand to process_row: any row for the CSV tool, the
\* cells dropna keeps for the dashboard
Items(v) ==
    IF v = "csv" THEN { <<>> } \cup { <<c>> : c \in Cells } ELSE Cells \ { <<>> }

RowDkimAnswers ==
    { AllDkim("NXDOMAIN"), AllDkim("TXT_DKIM"),
      [k \in 1..MaxSelectors |->
          IF k = 1 THEN "TIMEOUT" ELSE IF k = 2 THEN "TXT_OTHER" ELSE "NXDOMAIN"] }

RowEnvs ==
    { Env(val, dns, smtp) :
        val \in ValAnswers,
        dns \in { FaultDnsEnv }
                \cup { DnsEnv("ok", mx, txt, dmarc, dkim) :
                          mx \in MxAnswers, txt \in TxtAnswers, dmarc \in DmarcAnswers,
                          dkim \in RowDkimAnswers },
        smtp \in SmtpAnswers }

RowInit ==
    /\ IdleBatch
    /\ dns_in = NotRun /\ dns_out = NotRun
    /\ \E v \in Variants : \E item \in Items(v) : \E env \in RowEnvs :
          row_in = [v |-> v, item |-> item, env |-> env]
    /\ row_out = NotRun

RowAudit ==
    /\ row_out = NotRun
    /\ row_out' = process_row(row_in.v, row_in.item, row_in.env)
    /\ UNCHANGED <<variant, rows, task, fut, order, results, seg, phase,
                   dns_in, dns_out, row_in>>

SpecRow == RowInit /\ [][RowAudit]_vars

(***************************************************************************)
(* Properties                                                              *)
(***************************************************************************)
\* the cell process_row reads from an item
cell_of(v, item) == IF v = "csv" THEN item[1] ELSE item

\* a CSV row process_row skips: an empty row or an empty first cell
is_blank(v, item) == v = "csv" /\ (item = <<>> \/ item[1] = <<>>)

\* C1 as stated: once executor.map has been drained there is one record per
\* input, none missing, and results[i] is the record process_row made for
\* rows[i] (it carries rows[i]'s stripped address).
C1_OneRecordPerInput ==
    phase = "end" =>
        /\ Len(results) = Len(rows)
        /\ \A i \in 1..Len(rows) :
              /\ results[i] = fut[i].ret
              /\ results[i] # None
              /\ results[i].email = strip(cell_of(variant, rows[i]))

\* C1 amended: at every moment the results collected so far are index-aligned
\* with the input, whatever the order the calls returned in: results[i] is what
\* process_row returned for rows[i], which is None for a blank CSV row and
\* otherwise a record carrying rows[i]'s stripped address; at the end there is
\* one entry per input row.
C1_IndexAligned ==
    /\ Len(results) <= Len(rows)
    /\ phase = "end" => Len(results) = Len(rows)
    /\ \A i \in 1..Len(results) :
          /\ task[i] = "done"
          /\ results[i] = fut[i].ret
          /\ IF is_blank(variant, rows[i])
             THEN results[i] = None
             ELSE /\ results[i] # None
                  /\ results[i].email = strip(cell_of(variant, rows[i]))

\* a drained CSV batch whose second call returned before the first, with a
\* blank first row and an address in the second
C1_Witness ==
    /\ phase = "end"
    /\ variant = "csv"
    /\ order = <<2, 1>>
    /\ results[1] = None
    /\ results[2] # None
    /\ results[2].status = "Valid Format"

\* C2 as stated: a fault (an exception that is no validation error) reaching
\* process_row's handler yields a record with score 0 whose status is
\* "Internal Error", not "Syntax Error".
C2_FaultIsInternalError ==
    \A i \in DOMAIN fut :
        (fut[i] # NotRun /\ fut[i].fault) =>
            /\ fut[i].ret # None
            /\ fut[i].ret.score = 0
            /\ fut[i].ret.status = "Internal Error"

\* C3 as stated: when the validator rejects the address (EmailNotValidError)
\* the record is the Syntax Error record, all four DNS fields FAIL and score 0,
\* and no DNS lookup (by the validator or the DNS audit) and no SMTP step was
\* made for it.
C3_RejectionShortCircuits ==
    (/\ row_out # NotRun
     /\ ~is_blank(row_in.v, row_in.item)
     /\ validate_email(strip(cell_of(row_in.v, row_in.item)), row_in.v = "csv",
                       row_in.env.val).raised = "EmailNotValidError")
    => /\ row_out.ret # None
       /\ row_out.ret.status = "Syntax Error"
       /\ row_out.ret.mx = "FAIL" /\ row_out.ret.spf = "FAIL"
       /\ row_out.ret.dkim = "FAIL" /\ row_out.ret.dmarc = "FAIL"
       /\ row_out.ret.score = 0
       /\ ~row_out.val_dns
       /\ row_out.dns_log = <<>>
       /\ row_out.smtp_log = <<>>

\* an audited record: process_row ran and returned the record of a valid address
Audited ==
    /\ row_out # NotRun
    /\ row_out.ret # None
    /\ row_out.ret.status = "Valid Format"

\* C4: a record whose server is Google Workspace or Microsoft 365 has SMTP
\* PROTECTED, and the prober resolved no MX and opened no connection for it.
C4_ProtectedWithoutProbe ==
    (Audited /\ row_out.ret.server \in {"Google Workspace", "Microsoft 365"})
    => /\ row_out.ret.smtp = "PROTECTED"
       /\ row_out.smtp_log = <<>>

\* a Microsoft 365 record, PROTECTED, in an environment whose mail server would
\* have answered the probe
C4_Witness ==
    /\ Audited
    /\ row_out.ret.server = "Microsoft 365"
    /\ row_out.ret.smtp = "PROTECTED"
    /\ row_in.env.smtp = [fail |-> "none", code |-> 250]

DnsPointsOf(r) ==
    (IF r.mx = "PASS" THEN 20 ELSE 0) + (IF r.spf = "PASS" THEN 10 ELSE 0)
    + (IF r.dkim = "PASS" THEN 10 ELSE 0) + (IF r.dmarc = "PASS" THEN 10 ELSE 0)

Floor0(n) == IF n < 0 THEN 0 ELSE n

\* C5 as stated: every audited record's score is max(0, DNS points + 50 for
\* AVAILABLE or 40 for PROTECTED - 30 when the local part starts with a digit).
C5_ScoreAsStated ==
    Audited =>
        row_out.ret.score =
            Floor0(DnsPointsOf(row_out.ret)
                   + (IF row_out.ret.smtp = "AVAILABLE" THEN 50
                      ELSE IF row_out.ret.smtp = "PROTECTED" THEN 40 ELSE 0)
                   - (IF Head(row_out.ret.email) \in Digits THEN 30 ELSE 0))

\* C5 amended: every audited record's score is max(0, DNS points + S - P) with,
\* in the CSV tool, S = 50 for AVAILABLE and for PROTECTED and P = 30 when the
\* local part starts with a digit, and in the dashboard S = 50 for AVAILABLE,
\* 40 for PROTECTED and P = 0.
C5_ScorePerVariant ==
    Audited =>
        row_out.ret.score =
            Floor0(DnsPointsOf(row_out.ret)
                   + (IF row_in.v = "csv"
                      THEN (IF row_out.ret.smtp \in {"AVAILABLE", "PROTECTED"} THEN 50 ELSE 0)
                      ELSE (IF row_out.ret.smtp = "AVAILABLE" THEN 50
                            ELSE IF row_out.ret.smtp = "PROTECTED" THEN 40 ELSE 0))
                   - (IF row_in.v = "csv" /\ Head(row_out.ret.email) \in Digits
                      THEN 30 ELSE 0))

\* the CSV tool's digit-led address with every DNS check passed and SMTP
\* AVAILABLE, scored 70
C5_Witness ==
    /\ Audited
    /\ row_in.v = "csv"
    /\ row_out.ret.email = <<"1", "a", "@", "a">>
    /\ DnsPointsOf(row_out.ret) = 50
    /\ row_out.ret.smtp = "AVAILABLE"
    /\ row_out.ret.score = 70

\* C6: every record process_row returns has a score from 0 to 100.
C6_ScoreInRange ==
    (row_out # NotRun /\ row_out.ret # None)
    => row_out.ret.score \in 0..100

\* a digit-led address whose points (MX only, 20) are below the penalty: the
\* score is floored at 0
C6_Witness ==
    /\ Audited
    /\ Head(row_out.ret.email) \in Digits
    /\ row_out.ret.mx = "PASS"
    /\ DnsPointsOf(row_out.ret) = 20
    /\ row_out.ret.smtp = "UNVERIFIABLE"
    /\ row_out.ret.score = 0

Records == { i \in 1..Len(results) : results[i] # None }

\* C7, for a reading of the three groups: the lists hold only records of their
\* group, every record is counted in the group it belongs to, and the three
\* sizes add up to the number of records
Partitioned(InValid(_), InRisky(_)) ==
    /\ \A k \in 1..Len(seg.valid) : InValid(seg.valid[k])
    /\ \A k \in 1..Len(seg.risky) : InRisky(seg.risky[k])
    /\ Len(seg.valid) = Cardinality({i \in Records : InValid(results[i])})
    /\ Len(seg.risky) = Cardinality({i \in Records : InRisky(results[i])})
    /\ seg.dead = Cardinality({i \in Records : results[i].score = 0})
    /\ Len(seg.valid) + Len(seg.risky) + seg.dead = Cardinality(Records)

Threshold(v) == IF v = "csv" THEN 50 ELSE 70

\* C7 as stated: with T = 50 (CSV) or 70 (dashboard), Valid is score >= T,
\* Risky is 0 < score < T, Dead is score = 0, and every record is in exactly one.
C7_PartitionAsStated ==
    phase = "end" =>
        Partitioned(LAMBDA r : r.score >= Threshold(variant),
                    LAMBDA r : 0 < r.score /\ r.score < Threshold(variant))

\* C7 amended: every record is in exactly one group, where Dead is score = 0
\* and, in the dashboard, Valid is score >= 70 and Risky 0 < score < 70, while
\* in the CSV tool Valid is score > 50 and Risky is 0 < score <= 50.
C7_PartitionPerVariant ==
    phase = "end" =>
        Partitioned(LAMBDA r : IF variant = "csv" THEN r.score > 50 ELSE r.score >= 70,
                    LAMBDA r : /\ 0 < r.score
                               /\ IF variant = "csv" THEN r.score <= 50 ELSE r.score < 70)

\* a segmented CSV batch with a record of score exactly 50 (in the risky list)
\* and a record in the valid list
C7_Witness ==
    /\ phase = "end"
    /\ variant = "csv"
    /\ Len(seg.valid) = 1
    /\ Len(seg.risky) = 1
    /\ seg.risky[1].score = 50

\* the selector loop the claim describes: it ends at the first selector that
\* answers with a DKIM record (PASS) or times out (FAIL), and runs through the
\* list otherwise
ClaimedStops(v, answers) ==
    { k \in 1..Len(Selectors(v)) : answers[k] \in {"TXT_DKIM", "TIMEOUT"} }

ClaimedLast(v, answers) ==
    IF ClaimedStops(v, answers) = {} THEN Len(Selectors(v))
    ELSE CHOOSE k \in ClaimedStops(v, answers) :
            \A j \in ClaimedStops(v, answers) : k <= j

\* C8 as stated: the selectors are resolved in list order up to the first one
\* that answers with a DKIM record, which gives PASS, or that times out, which
\* ends the loop; a selector with NXDOMAIN/NoAnswer or with another TXT record
\* moves on to the next; FAIL when none matched.
C8_DkimLoopAsStated ==
    (dns_out # NotRun /\ dns_in.e.setup = "ok") =>
        /\ SubSeq(dns_out.log, 4, Len(dns_out.log))
              = SubSeq(Selectors(dns_in.v), 1, ClaimedLast(dns_in.v, dns_in.e.dkim))
        /\ dns_out.res.dkim = "PASS"
              <=> dns_in.e.dkim[ClaimedLast(dns_in.v, dns_in.e.dkim)] = "TXT_DKIM"

InLog(name, log) == \E k \in 1..Len(log) : log[k] = name

\* C9 as stated: get_dns_data never raises, whatever fails (the resolver's
\* set-up included); every sub-check is attempted and each field reports its
\* own lookup's result.
C9_NeverRaisesAllAttempted ==
    dns_out # NotRun =>
        /\ ~dns_out.raised
        /\ InLog("MX", dns_out.log) /\ InLog("TXT", dns_out.log)
        /\ InLog("_dmarc", dns_out.log)
        /\ InLog(Selectors(dns_in.v)[1], dns_out.log)
        /\ dns_out.res.mx = "PASS" <=> dns_in.e.mx.rcode = "NOERROR"
        /\ dns_out.res.spf = "PASS"
              <=> \E k \in 1..Len(dns_in.e.txt.records) :
                     dns_in.e.txt.records[k] = "v=spf1 -all"
        /\ dns_out.res.dmarc = "PASS" <=> dns_in.e.dmarc = "NOERROR"

ClaimedServer(host) ==
    IF host_has("google", host) THEN "Google Workspace"
    ELSE IF host_has("outlook", host) \/ host_has("microsoft", host) THEN "Microsoft 365"
    ELSE "Private SMTP"

\* C10 as stated: MX resolved gives mx PASS and the server named after the
\* first exchange host, lower-cased: Google Workspace with "google", Microsoft
\* 365 with "outlook" or "microsoft", Private SMTP otherwise; MX not resolved
\* gives mx FAIL and server Unknown.
C10_ServerAsStated ==
    (dns_out # NotRun /\ dns_in.e.setup = "ok") =>
        IF dns_in.e.mx.rcode = "NOERROR"
        THEN /\ dns_out.res.mx = "PASS"
             /\ dns_out.res.server = ClaimedServer(host_lower(dns_in.e.mx.host))
        ELSE /\ dns_out.res.mx = "FAIL"
             /\ dns_out.res.server = "Unknown"

====
